---------------------------- MODULE Spec2Model ----------------------------
(***************************************************************************)
(* Model of bevy_utilitarian: piecewise-linear parametric curves           *)
(* (curves/linear.rs), the pitch/yaw angular coordinate types              *)
(* (geometric/pitchyaw.rs, geometric/pitchyawclamped.rs) and the steppers  *)
(* over f32, PitchYaw and PitchYawClamped (steppers/linear_stepper.rs,     *)
(* steppers/spring_stepper.rs, steppers/derivatives.rs).                   *)
(*                                                                         *)
(* Number domain.  The program computes in f32.                            *)
(*   - curve times are integers in units of 1/TOne (TOne stands for 1.0);  *)
(*   - control point values are integers (the Point type instantiated at   *)
(*     f32); interpolated values are exact fractions n/d;                  *)
(*   - angles, clamp bounds, step sizes and angular speeds are f32 values  *)
(*     held as integers in units of 2^-24 rad, every f32 sum, difference   *)
(*     and product being rounded to the 24-bit significand (RoundF32Int);  *)
(*     -0.0 is held apart from +0.0 (NegZero).                             *)
(* The IEEE special values the code can produce without failing (a         *)
(* division by a zero segment length) are kept as NaN / +inf / -inf, and a *)
(* NaN query time is an explicit input.  The 24-bit significand of f32 is  *)
(* modelled for control point arithmetic whose exact result is a whole     *)
(* number (RoundF32: integers from 2^24 on are rounded to nearest, ties to *)
(* even); curve results with a fractional part and curve times are kept    *)
(* exact, their rounding error lying below the resolution of the grid.     *)
(* Steppers: LinearStepper<f32> steps through whole numbers with the f32   *)
(* rounding of RoundF32Int, durations being whole seconds; the angular     *)
(* steppers compute in f32 as the angular types do; SpringStepper<f32,     *)
(* f32> is computed in exact fractions, durations being multiples of       *)
(* 1/DtDen seconds.                                                        *)
(***************************************************************************)
EXTENDS Integers, Sequences, FiniteSets, TLC

\* ------------------------------------------------------------------ bounds
MaxPoints == 3      \* most control points handed to continuous / continuous_uniform
MaxSegs == 2        \* most raw segments handed to new
MaxP == 1           \* control point values range over 0..MaxP, and BigP
MaxTk == 1          \* constructor times range over {0, TStep, .., MaxTk*TStep}
QMargin == 1        \* query times range QStep*QMargin beyond either end of [0, 1]
MaxYaw == 13        \* PitchYaw yaw inputs range over -MaxYaw..MaxYaw sixths of PI (beyond a full turn)
MaxPitch == 4       \* PitchYaw pitch inputs reach -MaxPitch and MaxPitch sixths of PI (beyond pi/2)
MaxCoord == 2       \* PitchYawClamped y inputs range over -MaxCoord..MaxCoord sixths of PI, p inputs
                    \* are -MaxCoord, 0 and MaxCoord
MaxClamp == 1       \* PitchYawClamped clamp inputs are -1, 0 and MaxClamp
MaxDangle == 5      \* step sizes range over -1..MaxDangle
MaxVal == 2         \* scalar stepper values range over -MaxVal..MaxVal, and BigP
MaxSpeed == 2       \* LinearStepper speeds range over -1..MaxSpeed
MaxDt == 1          \* LinearStepper tick durations range over 0..MaxDt seconds
MaxTicks == 3       \* most ticks of a stepper whose values are not confined, most ticks before
                    \* the last set_target of a PitchYaw stepper

\* --------------------------------------------------------- number encoding
TOne == 12          \* the time 1.0, in grid units
TStep == TOne \div 2   \* spacing of the times offered to the constructors
QStep == TOne \div 4   \* spacing of the times offered to get
F32Bits == 24       \* width of the f32 significand
HalfPi == 26353590          \* PI / 2., in units of 2^-24 rad
PI == 2 * HalfPi            \* std::f32::consts::PI = 3.14159274
TwoPi == 2 * PI             \* 2. * PI
PiSixth == 8784530          \* PI / 6. : the spacing of the angles offered as inputs
DefaultClampP == 26336812   \* PI / 2. - 0.001 = 1.56979632
DefaultClampY == 52690404   \* PI - 0.001 = 3.14059281

\* Op applied to the value of v: an argument is evaluated once, before the call
With(v, Op(_)) == CHOOSE r \in {Op(w) : w \in {v}} : TRUE

Abs(x) == With(x, LAMBDA v : IF v < 0 THEN -v ELSE v)

RECURSIVE GCD(_, _)
GCD(x, y) == IF y = 0 THEN x ELSE GCD(y, x % y)

\* A finite f32 value n/d in lowest terms with d > 0
Frac(n, d) ==
    LET s == IF d < 0 THEN -1 ELSE 1
        g == GCD(Abs(n), Abs(d))
    IN  [k |-> "num", n |-> (s * n) \div g, d |-> (s * d) \div g]

RECURSIVE Pow2(_)
Pow2(n) == IF n = 0 THEN 1 ELSE 2 * Pow2(n - 1)

\* Every whole number below this magnitude is an f32
F32Exact == Pow2(F32Bits)

\* Spacing of the f32 values around the whole number a >= 0
RECURSIVE Ulp(_)
Ulp(a) == With(a, LAMBDA v : IF v < F32Exact THEN 1 ELSE 2 * Ulp(v \div 2))

\* The f32 nearest to the whole number n, ties to the even significand
RoundF32Int(n) ==
    With(n, LAMBDA v : With(Ulp(Abs(v)), LAMBDA u :
        With(<<Abs(v) \div u, Abs(v) % u>>, LAMBDA qr :
            LET q == qr[1]
                r == qr[2]
                m == IF 2 * r < u THEN q
                     ELSE IF 2 * r > u THEN q + 1
                     ELSE IF q % 2 = 0 THEN q ELSE q + 1
            IN  IF v < 0 THEN 0 - (m * u) ELSE m * u)))

\* Rounding of an arithmetic result to f32
RoundF32(f) ==
    IF f.k = "num" /\ f.d = 1 THEN [f EXCEPT !.n = RoundF32Int(f.n)] ELSE f

\* f32 difference of two whole values
FSub(x, y) == RoundF32Int(x - y)

NaN == [k |-> "nan", n |-> 0, d |-> 1]
PInf == [k |-> "pinf", n |-> 0, d |-> 1]
NInf == [k |-> "ninf", n |-> 0, d |-> 1]
Panic == [k |-> "panic", n |-> 0, d |-> 1]
NoOut == [k |-> "none", n |-> 0, d |-> 1]

\* f32 division x / y of two finite values (y = 0 is +0.0)
FDiv(x, y) ==
    IF y # 0 THEN Frac(x, y)
    ELSE IF x > 0 THEN PInf
    ELSE IF x < 0 THEN NInf
    ELSE NaN

\* f32 product of a finite value m and f
FMul(m, f) ==
    CASE f.k = "num" -> RoundF32(Frac(m * f.n, f.d))
      [] f.k = "nan" -> NaN
      [] f.k = "pinf" -> IF m > 0 THEN PInf ELSE IF m < 0 THEN NInf ELSE NaN
      [] f.k = "ninf" -> IF m > 0 THEN NInf ELSE IF m < 0 THEN PInf ELSE NaN

\* f32 sum of a finite value s and f
FAdd(s, f) ==
    IF f.k = "num" THEN RoundF32(Frac(s * f.d + f.n, f.d)) ELSE f

\* ------------------------------------------------------------- curves
\* Mutant of get_percent: the start point is not subtracted from the end point
get_percent_noSub(seg, percent) == FAdd(seg.start, FMul(seg.end, percent))

\* LinearSegment::get_percent
get_percent(seg, percent) ==
    FAdd(seg.start, FMul(FSub(seg.end, seg.start), percent))

\* LinearParamCurve::new : Len(segs) < 1 panics
new_panics(segs) == Len(segs) < 1
new(segs) == [i \in 1..Len(segs) |->
                [t |-> segs[i][1], start |-> segs[i][2], end |-> segs[i][3]]]

\* LinearParamCurve::continuous_uniform : points.len() < 2 panics; the times
\* i / (len - 1) fall on the grid for every len - 1 that divides TOne
continuous_uniform_panics(points) == Len(points) < 2
continuous_uniform(points) ==
    [i \in 1..(Len(points) - 1) |->
        [t |-> ((i - 1) * TOne) \div (Len(points) - 1),
         start |-> points[i], end |-> points[i + 1]]]

\* Mutant of continuous_panics: a single point is accepted
continuous_panics_offByOne(points) == Len(points) < 1

\* Mutant of continuous: each segment ends at its own start point
continuous_flat(points) ==
    [i \in 1..(Len(points) - 1) |->
        [t |-> points[i][1], start |-> points[i][2], end |-> points[i][2]]]

\* LinearParamCurve::continuous : points.len() < 2 panics
continuous_panics(points) == Len(points) < 2
continuous(points) ==
    [i \in 1..(Len(points) - 1) |->
        [t |-> points[i][1], start |-> points[i][2], end |-> points[i + 1][2]]]

\* segment_idx is the 0-based index of the source
segment_start(segments, segment_idx) == segments[segment_idx + 1].t
segment(segments, segment_idx) == segments[segment_idx + 1]

\* Mutant of segment_length: every segment is taken to reach t = 1
segment_length_toOne(segments, segment_idx) == TOne - segments[segment_idx + 1].t

segment_length(segments, segment_idx) ==
    IF segment_idx = Len(segments) - 1
    THEN TOne - segments[segment_idx + 1].t
    ELSE segments[segment_idx + 2].t - segments[segment_idx + 1].t

\* f32::clamp(0., 1.)
clamp01(t) == IF t < 0 THEN 0 ELSE IF t > TOne THEN TOne ELSE t

\* t2.partial_cmp(&t) as -1 (Less), 0 (Equal), 1 (Greater)
Cmp(t2, t) == IF t2 < t THEN -1 ELSE IF t2 = t THEN 0 ELSE 1

\* The slice is ordered consistently with the comparator
Partitioned(segments, t) ==
    \A i, j \in 1..Len(segments) :
        i < j => Cmp(segments[i].t, t) <= Cmp(segments[j].t, t)

\* The results slice::binary_search_by may return: Ok(i) only where the
\* comparator answered Equal (any of the matches); on a miss of an ordered
\* slice Err(insertion point); on a slice that is not ordered the result is
\* unspecified, so any Err(i) with 0 <= i <= len.
binary_search_by(segments, t) ==
    LET n == Len(segments)
        oks == {[ok |-> TRUE, i |-> i - 1] : i \in {j \in 1..n : segments[j].t = t}}
    IN  IF Partitioned(segments, t)
        THEN IF oks # {}
             THEN oks
             ELSE {[ok |-> FALSE,
                    i |-> Cardinality({j \in 1..n : segments[j].t < t})]}
        ELSE oks \cup {[ok |-> FALSE, i |-> i] : i \in 0..n}

\* Stands for the value of the usize expression 0 - 1: the subtraction
\* panics where overflow checks are on and wraps to usize::MAX where they
\* are off; max(0) keeps usize::MAX, which indexes past every slice.
UsizeUnderflow == -1

\* Ok(i) => i, Err(i) => (i - 1).max(0)
segment_idx_of(r) ==
    IF r.ok THEN r.i
    ELSE IF r.i = 0 THEN UsizeUnderflow
    ELSE r.i - 1

\* The rest of get once the index is chosen, t already clamped
get_at(segments, t, segment_idx) ==
    IF segment_idx \notin 0..(Len(segments) - 1)
    THEN Panic
    ELSE get_percent(segment(segments, segment_idx),
                     FDiv(t - segment_start(segments, segment_idx),
                          segment_length(segments, segment_idx)))

\* AsParamCurve::get for a finite t: the set of outcomes the call can have
get(segments, t) ==
    IF Len(segments) = 0
    THEN {Panic}
    ELSE {get_at(segments, clamp01(t), segment_idx_of(r)) :
            r \in binary_search_by(segments, clamp01(t))}

\* AsParamCurve::get for t = NaN: clamp keeps NaN, partial_cmp gives None,
\* unwrap panics on the first comparison
get_nan(segments) == {Panic}


\* ------------------------------------------------------------- angles
\* -0.0 : the one f32 that needs its sign kept apart from its value. It is
\* stored as a negative number no computation produces, so that x < 0 reads
\* the sign bit of every stored value.
NegZero == 0 - 2147483647

\* The numeric value of a stored f32
Num(x) == With(x, LAMBDA v : IF v = NegZero THEN 0 ELSE v)

\* f32 comparisons: -0.0 == +0.0
f32_eq(x, y) == Num(x) = Num(y)
f32_lt(x, y) == Num(x) < Num(y)
f32_gt(x, y) == Num(x) > Num(y)

\* f32 unary minus : flips the sign bit, of a zero too
f32_neg(x) ==
    With(x, LAMBDA a : IF a = 0 THEN NegZero ELSE IF a = NegZero THEN 0 ELSE 0 - a)

\* f32::abs : clears the sign bit
f32_abs(x) == Abs(Num(x))

\* f32 + : the exact sum rounded to the nearest f32; a zero sum is -0.0 only
\* when both operands are -0.0
f32_add(x, y) ==
    With(<<x, y>>, LAMBDA a :
        IF a[1] = NegZero /\ a[2] = NegZero THEN NegZero
        ELSE RoundF32Int(Num(a[1]) + Num(a[2])))

\* f32 - : x + (-y)
f32_sub(x, y) == f32_add(x, f32_neg(y))

\* f32 * of a stored value and a whole number (a sign, a number of seconds, a
\* factor): the exact product rounded to the nearest f32; a zero product
\* carries the product of the signs
f32_mul(x, k) ==
    With(<<x, k, Num(x) * Num(k)>>, LAMBDA a :
        IF a[3] # 0 THEN RoundF32Int(a[3])
        ELSE IF (a[1] < 0) # (a[2] < 0) THEN NegZero ELSE 0)

\* f32 % : remainder with the sign of the dividend (exact in f32), -0.0 for a
\* negative dividend that m divides
frem(x, m) ==
    With(x, LAMBDA a : IF a >= 0 THEN a % m ELSE f32_neg((0 - Num(a)) % m))

\* Mutant of rem_euclid: the plain remainder, negative for a negative dividend
rem_euclid_trunc(x, m) == frem(x, m)

\* f32::rem_euclid : r = x % m; if r < 0.0 { r + m.abs() } else { r }
rem_euclid(x, m) ==
    With(frem(x, m), LAMBDA r : IF f32_lt(r, 0) THEN f32_add(r, f32_abs(m)) ELSE r)

\* f32::signum : 1.0 for +0.0 and positive values, -1.0 for -0.0 and negative
\* values
signum(x) == IF x < 0 THEN 0 - 1 ELSE 1

\* f32::clamp where min <= max (it asserts min <= max otherwise): a value
\* below min becomes min, above max becomes max, sign of a zero bound included
clamp(x, min, max) ==
    With(x, LAMBDA a : IF f32_lt(a, min) THEN min ELSE IF f32_gt(a, max) THEN max ELSE a)

\* The result of a call: a value, or a panic
Ok(v) == [panic |-> FALSE, v |-> v]
Panicked(v) == [panic |-> TRUE, v |-> v]

\* PitchYaw::new(u, v)
PY_new(u, v) == [p |-> v, y |-> u]

\* PitchYaw::default
PY_default == PY_new(0, 0)

\* derive(PartialEq) for PitchYaw
PY_eq(a, b) == f32_eq(a.p, b.p) /\ f32_eq(a.y, b.y)

\* Mutant of PY_normalize: the yaw is not shifted back by PI after the wrap
PY_normalize_noShift(s) ==
    With(s, LAMBDA v :
        [p |-> clamp(v.p, f32_neg(HalfPi), HalfPi),
         y |-> rem_euclid(f32_add(v.y, PI), TwoPi)])

\* PitchYaw::normalize
PY_normalize(s) ==
    With(s, LAMBDA v :
        [p |-> clamp(v.p, f32_neg(HalfPi), HalfPi),
         y |-> f32_sub(rem_euclid(f32_add(v.y, PI), TwoPi), PI)])

\* Mutant of PY_sub_pitchyaw: the yaw difference is not wrapped
PY_sub_pitchyaw_plain(s, other) ==
    PY_new(f32_sub(s.y, other.y), f32_sub(s.p, other.p))

\* PitchYaw::sub_pitchyaw
PY_sub_pitchyaw(s, other) ==
    LET pitch == f32_sub(s.p, other.p)
        yaw == f32_sub(rem_euclid(f32_add(f32_sub(s.y, other.y), PI), TwoPi), PI)
    IN  PY_new(yaw, pitch)

\* Exact squares of stored values, in squared units, as two-digit numbers
\* hi * SqBase^2 + lo
SqBase == 16384

Square(x) ==
    LET a == f32_abs(x)
        a1 == a \div SqBase
        a0 == a % SqBase
        mid == 2 * a1 * a0
        lo == (mid % SqBase) * SqBase + a0 * a0
    IN  [hi |-> a1 * a1 + (mid \div SqBase) + (lo \div (SqBase * SqBase)),
         lo |-> lo % (SqBase * SqBase)]

WideAdd(u, v) ==
    LET lo == u.lo + v.lo
    IN  [hi |-> u.hi + v.hi + (lo \div (SqBase * SqBase)),
         lo |-> lo % (SqBase * SqBase)]

WideLess(u, v) == u.hi < v.hi \/ (u.hi = v.hi /\ u.lo < v.lo)

\* Two to the number of binary digits of h
RECURSIVE Pow2Above(_)
Pow2Above(h) == IF h = 0 THEN 1 ELSE 2 * Pow2Above(h \div 2)

\* The f32 nearest to the two-digit number v, ties to the even significand
WideRound(v) ==
    With(v, LAMBDA a :
        IF a.hi = 0
        THEN LET r == RoundF32Int(a.lo)
             IN  [hi |-> r \div (SqBase * SqBase), lo |-> r % (SqBase * SqBase)]
        ELSE IF a.hi < F32Exact
        THEN LET u == ((SqBase * SqBase) \div F32Exact) * Pow2Above(a.hi)
                 q == a.lo \div u
                 r == a.lo % u
                 odd == IF u = SqBase * SqBase THEN a.hi % 2 = 1 ELSE q % 2 = 1
                 l == IF 2 * r > u \/ (2 * r = u /\ odd) THEN (q + 1) * u ELSE q * u
             IN  [hi |-> a.hi + (l \div (SqBase * SqBase)), lo |-> l % (SqBase * SqBase)]
        ELSE LET t == Pow2Above(a.hi) \div F32Exact
                 q == a.hi \div t
                 r == a.hi % t
                 up == r > t \div 2
                       \/ (r = t \div 2 /\ (a.lo > 0 \/ q % 2 = 1))
             IN  [hi |-> (IF up THEN q + 1 ELSE q) * t, lo |-> 0])

\* The two-digit number v > 0 scaled by a power of four 4^k into the range of
\* the squares of 24-bit significands, [F32Exact^2 / 4, F32Exact^2)
RECURSIVE WideNorm(_, _)
WideNorm(v, k) ==
    LET top == (F32Exact \div SqBase) * (F32Exact \div SqBase)
    IN  IF v.hi >= top
        THEN WideNorm([hi |-> v.hi \div 4,
                       lo |-> ((v.hi % 4) * (SqBase * SqBase) + v.lo) \div 4], k - 1)
        ELSE IF v.hi < top \div 4
        THEN WideNorm([hi |-> 4 * v.hi + ((4 * v.lo) \div (SqBase * SqBase)),
                       lo |-> (4 * v.lo) % (SqBase * SqBase)], k + 1)
        ELSE [v |-> v, k |-> k]

\* The largest m + j, j below 2 * b, whose square is not above the two-digit
\* number n
RECURSIVE SqrtDigits(_, _, _)
SqrtDigits(n, m, b) ==
    IF b = 0 THEN m
    ELSE IF WideLess(n, Square(m + b)) THEN SqrtDigits(n, m, b \div 2)
    ELSE SqrtDigits(n, m + b, b \div 2)

\* f32::sqrt of a stored f32 v >= 0 given in squared units: the square root
\* rounded to a 24-bit significand, as a fraction of the unit (the f32 values
\* below 2^23 units are spaced more finely than one unit)
f32_sqrt(v) ==
    IF v.hi = 0 /\ v.lo = 0 THEN Frac(0, 1)
    ELSE With(WideNorm(v, 0), LAMBDA a :
            With(SqrtDigits(a.v, 0, F32Exact \div 2), LAMBDA m :
                LET r == IF WideLess(WideAdd(Square(m), [hi |-> 0, lo |-> m]), a.v)
                         THEN m + 1 ELSE m
                IN  IF a.k >= 0 THEN Frac(r, Pow2(a.k))
                    ELSE Frac(r * Pow2(0 - a.k), 1)))

\* f32 < of a length, a fraction of the unit, and a stored value
LengthBelow(len, d) == len.n \div len.d < Num(d)

\* PitchYaw::length : (y * y + p * p).sqrt(), every operation rounded to f32
PY_length(s) ==
    f32_sqrt(WideRound(WideAdd(WideRound(Square(s.y)), WideRound(Square(s.p)))))

\* PitchYaw::distance
PY_distance(s, other) == PY_length(PY_sub_pitchyaw(s, other))

\* Mutant of PY_step_toward: the delta is the plain difference, not wrapped
PY_step_toward_noWrap(s, target, dangle) ==
    With(<<PY_new(f32_sub(target.y, s.y), f32_sub(target.p, s.p)), dangle>>, LAMBDA a :
        LET delta == a[1]
            out_y == IF f32_lt(f32_abs(delta.y), a[2])
                     THEN target.y
                     ELSE f32_add(s.y, f32_mul(a[2], signum(delta.y)))
            out_p == IF f32_lt(f32_abs(delta.p), a[2])
                     THEN target.p
                     ELSE f32_add(s.p, f32_mul(a[2], signum(delta.p)))
        IN  PY_normalize([y |-> out_y, p |-> out_p]))

\* PitchYaw::step_toward
PY_step_toward(s, target, dangle) ==
    With(<<PY_sub_pitchyaw(target, s), dangle>>, LAMBDA a :
        LET delta == a[1]
            out_y == IF f32_lt(f32_abs(delta.y), a[2])
                     THEN target.y
                     ELSE f32_add(s.y, f32_mul(a[2], signum(delta.y)))
            out_p == IF f32_lt(f32_abs(delta.p), a[2])
                     THEN target.p
                     ELSE f32_add(s.p, f32_mul(a[2], signum(delta.p)))
        IN  PY_normalize([y |-> out_y, p |-> out_p]))

\* PitchYawClamped::new_with_clamps(u, v, clamp_p, clamp_y)
PYC_new_with_clamps(u, v, clamp_p, clamp_y) ==
    [p |-> v, y |-> u, clamp_p |-> clamp_p, clamp_y |-> clamp_y]

\* PitchYawClamped::new(u, v)
PYC_new(u, v) == PYC_new_with_clamps(u, v, DefaultClampP, DefaultClampY)

\* PitchYawClamped::default
PYC_default == PYC_new(0, 0)

\* derive(PartialEq) for PitchYawClamped
PYC_eq(a, b) ==
    /\ f32_eq(a.p, b.p) /\ f32_eq(a.y, b.y)
    /\ f32_eq(a.clamp_p, b.clamp_p) /\ f32_eq(a.clamp_y, b.clamp_y)

\* PitchYawClamped::normalize : f32::clamp panics when min > max
PYC_normalize(s) ==
    With(s, LAMBDA v :
        IF f32_gt(f32_neg(v.clamp_p), v.clamp_p) \/ f32_gt(f32_neg(v.clamp_y), v.clamp_y)
        THEN Panicked(v)
        ELSE Ok([v EXCEPT !.p = clamp(v.p, f32_neg(v.clamp_p), v.clamp_p),
                          !.y = clamp(v.y, f32_neg(v.clamp_y), v.clamp_y)]))

\* PitchYawClamped::sub_pitchyaw
PYC_sub_pitchyaw(s, other) ==
    [s EXCEPT !.p = f32_sub(s.p, other.p), !.y = f32_sub(s.y, other.y)]

\* PitchYawClamped::length : (y * y + p * p).sqrt(), every operation rounded
\* to f32
PYC_length(s) ==
    f32_sqrt(WideRound(WideAdd(WideRound(Square(s.y)), WideRound(Square(s.p)))))

\* PitchYawClamped::distance
PYC_distance(s, other) == PYC_length(PYC_sub_pitchyaw(s, other))

\* Mutant of PYC_step_toward: the result takes the target's clamp bounds
PYC_step_toward_targetClamps(s, target, dangle) ==
    With(<<PYC_sub_pitchyaw(target, s), dangle>>, LAMBDA a :
        LET delta == a[1]
            out_y == IF f32_lt(f32_abs(delta.y), a[2])
                     THEN target.y
                     ELSE f32_add(s.y, f32_mul(a[2], signum(delta.y)))
            out_p == IF f32_lt(f32_abs(delta.p), a[2])
                     THEN target.p
                     ELSE f32_add(s.p, f32_mul(a[2], signum(delta.p)))
        IN  PYC_normalize([PYC_default EXCEPT !.y = out_y, !.p = out_p,
                                              !.clamp_y = target.clamp_y,
                                              !.clamp_p = target.clamp_p]))

\* PitchYawClamped::step_toward
PYC_step_toward(s, target, dangle) ==
    With(<<PYC_sub_pitchyaw(target, s), dangle>>, LAMBDA a :
        LET delta == a[1]
            out_y == IF f32_lt(f32_abs(delta.y), a[2])
                     THEN target.y
                     ELSE f32_add(s.y, f32_mul(a[2], signum(delta.y)))
            out_p == IF f32_lt(f32_abs(delta.p), a[2])
                     THEN target.p
                     ELSE f32_add(s.p, f32_mul(a[2], signum(delta.p)))
        IN  PYC_normalize([PYC_default EXCEPT !.y = out_y, !.p = out_p,
                                              !.clamp_y = s.clamp_y,
                                              !.clamp_p = s.clamp_p]))

\* PitchYawClamped::clamp_u : f32::clamp panics when min > max; the result
\* is built by Self::new, with the default clamp bounds
PYC_clamp_u(s, min, max) ==
    IF f32_gt(min, max) THEN Panicked(s) ELSE Ok(PYC_new(clamp(s.y, min, max), s.p))

\* PitchYawClamped::clamp_v
PYC_clamp_v(s, min, max) ==
    IF f32_gt(min, max) THEN Panicked(s) ELSE Ok(PYC_new(s.y, clamp(s.p, min, max)))

\* PitchYawClamped::clamp : clamp_u, then clamp_v of its result
PYC_clamp(s, min, max) ==
    LET u == PYC_clamp_u(s, min, max)
    IN  IF u.panic THEN u ELSE PYC_clamp_v(u.v, min, max)

\* impl Add for PitchYawClamped
PYC_add(s, rhs) ==
    PYC_new_with_clamps(f32_add(s.y, rhs.y), f32_add(s.p, rhs.p), s.clamp_p, s.clamp_y)

\* impl Mul<f32> for PitchYawClamped : rhs a whole number
PYC_mul(s, rhs) ==
    PYC_new_with_clamps(f32_mul(s.y, rhs), f32_mul(s.p, rhs), s.clamp_p, s.clamp_y)

\* bevy Vec2::new(x, y)
Vec2_new(x, y) == [x |-> x, y |-> y]

\* Mutant of PYC_tick: the advanced value is returned without normalize
PYC_tick_raw(s, dt, derivative) ==
    Ok(PYC_new_with_clamps(f32_add(s.y, f32_mul(derivative.x, dt)),
                           f32_add(s.p, f32_mul(derivative.y, dt)),
                           s.clamp_p, s.clamp_y))

\* impl TickDerivative for PitchYawClamped : dt in whole seconds
PYC_tick(s, dt, derivative) ==
    PYC_normalize(PYC_new_with_clamps(f32_add(s.y, f32_mul(derivative.x, dt)),
                                      f32_add(s.p, f32_mul(derivative.y, dt)),
                                      s.clamp_p, s.clamp_y))

\* ------------------------------------------------------------- steppers
\* Arithmetic on exact fractions [k |-> "num", n, d]
QInt(i) == Frac(i, 1)
QAdd(a, b) ==
    LET g == GCD(a.d, b.d)
    IN  Frac(a.n * (b.d \div g) + b.n * (a.d \div g), (a.d \div g) * b.d)
QSub(a, b) == QAdd(a, Frac(0 - b.n, b.d))
QMul(a, b) == Frac(a.n * b.n, a.d * b.d)
QNeg(a) == Frac(0 - a.n, a.d)
QDiv(a, b) == Frac(a.n * b.d, a.d * b.n)
QLess(a, b) == a.n * b.d < b.n * a.d
QLeq(a, b) == a.n * b.d <= b.n * a.d
QAbs(a) == Frac(Abs(a.n), a.d)

\* Square root of a whole number that is a perfect square
ISqrt(n) == CHOOSE r \in 0..n : r * r = n

\* f32::sqrt of a fraction whose terms are perfect squares
QSqrt(a) == Frac(ISqrt(a.n), ISqrt(a.d))

\* pub const SPRING_MASS: f32 = 1.
SPRING_MASS == 1

\* critical_damp_coeff(spring_constant)
critical_damp_coeff(spring_constant) ==
    QMul(QInt(2), QSqrt(QMul(spring_constant, QInt(SPRING_MASS))))

\* impl TickDerivative for f32
f32_tick(s, dt, derivative) == QAdd(s, QMul(derivative, dt))

\* Mutant of LinearStepper_f32_tick: the step is taken even when the target
\* is within the budget
LinearStepper_f32_tick_noSnap(current_, target_, speed_, dt) ==
    LET delta_abs == RoundF32Int(speed_ * dt)
        diff == FSub(target_, current_)
    IN  IF diff = 0 THEN target_
        ELSE RoundF32Int(current_ + signum(diff) * delta_abs)

\* LinearStepper<f32>::tick : the new current; dt in whole seconds, the
\* values whole numbers, rounded to f32
LinearStepper_f32_tick(current_, target_, speed_, dt) ==
    LET delta_abs == RoundF32Int(speed_ * dt)
        diff == FSub(target_, current_)
    IN  IF Abs(diff) > delta_abs
        THEN RoundF32Int(current_ + signum(diff) * delta_abs)
        ELSE target_

\* Mutant of LinearStepper_PitchYaw_tick: the step budget is negated
LinearStepper_PitchYaw_tick_backward(current_, target_, speed_, dt) ==
    PY_step_toward(current_, target_, f32_neg(f32_mul(speed_, dt)))

\* LinearStepper<PitchYaw>::tick : the new current
LinearStepper_PitchYaw_tick(current_, target_, speed_, dt) ==
    PY_step_toward(current_, target_, f32_mul(speed_, dt))

\* Mutant of LinearStepper_PitchYaw_set_target: the value is stored as given
LinearStepper_PitchYaw_set_target_raw(t) == t

\* LinearStepper<PitchYaw>::set_target : the new target
LinearStepper_PitchYaw_set_target(t) == PY_normalize(t)

\* LinearStepper<PitchYawClamped>::tick : the new current, or a panic
LinearStepper_PitchYawClamped_tick(current_, target_, speed_, dt) ==
    PYC_step_toward(current_, target_, f32_mul(speed_, dt))

\* LinearStepper<PitchYawClamped>::set_target : the new target, or a panic
LinearStepper_PitchYawClamped_set_target(t) == PYC_normalize(t)

\* SpringStepper<PitchYawClamped, Vec2>::set_target : the new target
SpringStepper_PitchYawClamped_set_target(t) == t

\* Mutant of SpringStepper_f32_tick: the damping force has the sign of the
\* velocity
SpringStepper_f32_tick_posDamping(current_, target_, velocity_, spring_, damping_, dt) ==
    LET damping_force == QMul(velocity_, damping_)
        spring_force == QMul(QSub(target_, current_), spring_)
        v == QAdd(velocity_, QMul(QAdd(damping_force, spring_force),
                                  QDiv(dt, QInt(SPRING_MASS))))
    IN  [velocity |-> v, current |-> f32_tick(current_, dt, v)]

\* SpringStepper<f32, f32>::tick : the new [velocity, current]
SpringStepper_f32_tick(current_, target_, velocity_, spring_, damping_, dt) ==
    LET damping_force == QMul(velocity_, QNeg(damping_))
        spring_force == QMul(QSub(target_, current_), spring_)
        v == QAdd(velocity_, QMul(QAdd(damping_force, spring_force),
                                  QDiv(dt, QInt(SPRING_MASS))))
    IN  [velocity |-> v, current |-> f32_tick(current_, dt, v)]

\* SpringStepper<PitchYawClamped, Vec2>::tick : the new [velocity, current],
\* current being a value or a panic; spring, damping and dt whole numbers
SpringStepper_PitchYawClamped_tick(current_, target_, velocity_, spring_, damping_, dt) ==
    LET damping_force == Vec2_new(f32_mul(velocity_.x, f32_neg(damping_)),
                                  f32_mul(velocity_.y, f32_neg(damping_)))
        diff == PYC_mul(PYC_sub_pitchyaw(target_, current_), spring_)
        spring_force == Vec2_new(diff.y, diff.p)
        v == Vec2_new(f32_add(velocity_.x,
                              f32_mul(f32_add(damping_force.x, spring_force.x),
                                      dt \div SPRING_MASS)),
                      f32_add(velocity_.y,
                              f32_mul(f32_add(damping_force.y, spring_force.y),
                                      dt \div SPRING_MASS)))
    IN  [velocity |-> v, current |-> PYC_tick(current_, dt, v)]

\* --------------------------------------- bevy's Vec3 and Quat (external)
\* A Vec3 of whole-number coordinates. The vectors of the model lie along the
\* x axis, where every f32 operation of the stepper is computed exactly:
\* sqrt(x * x) is |x| and x * (1.0 / |x|) is 1.0 or -1.0.
Vec3_new(x, y, z) == [x |-> x, y |-> y, z |-> z]
Vec3_sub(a, b) == Vec3_new(FSub(a.x, b.x), FSub(a.y, b.y), FSub(a.z, b.z))
Vec3_add(a, b) ==
    Vec3_new(RoundF32Int(a.x + b.x), RoundF32Int(a.y + b.y), RoundF32Int(a.z + b.z))
Vec3_mul(a, k) ==
    Vec3_new(RoundF32Int(a.x * k), RoundF32Int(a.y * k), RoundF32Int(a.z * k))
Vec3_dot(a, b) ==
    RoundF32Int(RoundF32Int(RoundF32Int(a.x * b.x) + RoundF32Int(a.y * b.y))
                + RoundF32Int(a.z * b.z))

\* Vec3::length : sqrt(self.dot(self)), a whole number for a vector along an axis
Vec3_length(a) == ISqrt(Vec3_dot(a, a))

RecipBits == 30     \* 1.0 / n is a multiple of 2^-30 in f32 for every whole n in 1..128
RecipOne == Pow2(RecipBits)

\* The f32 nearest to n / d (n, d > 0), ties to the even significand
RoundF32Ratio(n, d) ==
    With(<<n \div d, n % d>>, LAMBDA qr : With(Ulp(qr[1]), LAMBDA u :
        LET q == qr[1] \div u
            r == (qr[1] % u) * d + qr[2]
        IN  IF 2 * r < u * d THEN q * u
            ELSE IF 2 * r > u * d THEN (q + 1) * u
            ELSE IF q % 2 = 0 THEN q * u ELSE (q + 1) * u))

\* f32::recip of a whole number n in 1..128, in units of 2^-RecipBits
f32_recip(n) == RoundF32Ratio(RecipOne, n)

\* Vec3::normalize : self * self.length().recip(), for a vector along an axis
\* of length up to 40, where the f32 product n * (1.0 / n) is 1.0: every
\* coordinate of the result is -1.0, 0.0 or 1.0
Vec3_normalize(a) ==
    With(f32_recip(Vec3_length(a)), LAMBDA r :
        Vec3_new(RoundF32Int(a.x * r) \div RecipOne,
                 RoundF32Int(a.y * r) \div RecipOne,
                 RoundF32Int(a.z * r) \div RecipOne))

\* A unit Quat turning about the y axis: Quat::from_rotation_y(angle), angle in
\* units of 2^-24 rad. bits tells two quaternions of one rotation apart: 0 as
\* from_rotation_y returns it, 1 with the low bits slerp's renormalization
\* can leave.
Quat_from_rotation_y(a) == [angle |-> a, bits |-> 0]

\* The yaw a in [-PI, PI) (exact, not f32)
WrapAngle(a) == ((a + PI) % TwoPi) - PI

\* The angle between the rotations of a and b, in [0, PI]
Quat_angle(a, b) == Abs(WrapAngle(a.angle - b.angle))

SelfAngle == 11585  \* 2 * acos(1 - 2^-24) = 0.00069 rad, the angle f32 can report
                    \* between a unit quaternion and itself

\* Quat::angle_between : the results f32 can give. Between two rotations it is
\* their angle; between a quaternion and one of the same rotation it is 0.0
\* when the f32 dot product is 1.0 and positive when it falls below 1.0.
Quat_angle_between(a, b) ==
    IF Quat_angle(a, b) = 0 THEN {0, SelfAngle} ELSE {Quat_angle(a, b)}

\* Quat::slerp(self, end, s) for s = turn / delta_angle : the results f32 can
\* give. The rotation is self's turned toward end along the shorter arc by s
\* times the angle between them, which is turn where delta_angle is that
\* angle and nothing where the two rotations coincide; the low bits of the
\* result are not determined.
Quat_slerp(a, b, turn, delta_angle) ==
    LET d == WrapAngle(b.angle - a.angle)
        by == IF d = 0 THEN 0 ELSE IF d > 0 THEN turn ELSE 0 - turn
    IN  {[angle |-> WrapAngle(a.angle + by), bits |-> n] : n \in {0, 1}}

\* Mutant of LinearStepper_Vec3_tick: the step is taken even when the target
\* is within the budget
LinearStepper_Vec3_tick_noSnap(current_, target_, speed_, dt) ==
    LET delta == Vec3_sub(target_, current_)
        delta_length == Vec3_length(delta)
        max_delta == RoundF32Int(speed_ * dt)
    IN  IF delta_length > 0
        THEN Vec3_add(current_, Vec3_mul(Vec3_normalize(delta), max_delta))
        ELSE current_

\* LinearStepper<Vec3>::tick : the new current
LinearStepper_Vec3_tick(current_, target_, speed_, dt) ==
    LET delta == Vec3_sub(target_, current_)
        delta_length == Vec3_length(delta)
        max_delta == RoundF32Int(speed_ * dt)
    IN  IF delta_length < max_delta THEN target_
        ELSE IF delta_length > 0
        THEN Vec3_add(current_, Vec3_mul(Vec3_normalize(delta), max_delta))
        ELSE current_

\* LinearStepper<Vec3>::set_target : the new target
LinearStepper_Vec3_set_target(t) == t

\* LinearStepper<Quat>::tick : the values current can take, delta_angle being
\* the result of current.angle_between(target)
LinearStepper_Quat_tick(current_, target_, speed_, dt, delta_angle) ==
    LET max_delta_angle == Num(f32_mul(speed_, dt))
    IN  IF delta_angle < max_delta_angle THEN {target_}
        ELSE IF delta_angle > 0
        THEN Quat_slerp(current_, target_, max_delta_angle, delta_angle)
        ELSE {current_}

\* LinearStepper<Quat>::set_target : the new target
LinearStepper_Quat_set_target(t) == t

\* SpringStepper<Vec3>::tick : the new [velocity, current]. Every operation of
\* the tick (Vec3 * f32, Vec3 - Vec3, Vec3 + Vec3) works coordinate by
\* coordinate, so each coordinate goes through the scalar tick
SpringStepper_Vec3_tick(current_, target_, velocity_, spring_, damping_, dt) ==
    LET x == SpringStepper_f32_tick(current_.x, target_.x, velocity_.x, spring_, damping_, dt)
        y == SpringStepper_f32_tick(current_.y, target_.y, velocity_.y, spring_, damping_, dt)
        z == SpringStepper_f32_tick(current_.z, target_.z, velocity_.z, spring_, damping_, dt)
    IN  [velocity |-> Vec3_new(x.velocity, y.velocity, z.velocity),
         current |-> Vec3_new(x.current, y.current, z.current)]

\* SpringStepper<Vec3>::set_target : the new target
SpringStepper_Vec3_set_target(t) == t

\* SpringStepper<Vec2>::tick : the new [velocity, current], coordinate by
\* coordinate as for Vec3
SpringStepper_Vec2_tick(current_, target_, velocity_, spring_, damping_, dt) ==
    LET x == SpringStepper_f32_tick(current_.x, target_.x, velocity_.x, spring_, damping_, dt)
        y == SpringStepper_f32_tick(current_.y, target_.y, velocity_.y, spring_, damping_, dt)
    IN  [velocity |-> Vec2_new(x.velocity, y.velocity),
         current |-> Vec2_new(x.current, y.current)]

\* SpringStepper<Vec2>::set_target : the new target
SpringStepper_Vec2_set_target(t) == t

\* ------------------------------------------------------------- state
VARIABLES
    ctor,       \* constructor that was called: "none", "new", "continuous_uniform", "continuous"
    nin,        \* number of segments / points handed to that constructor
    built,      \* "none" before construction, "ok" a curve exists, "panic" the constructor aborted
    segments,   \* the curve's segments: sequence of [t, start, end]
    qt,         \* the last query time handed to get: [nan, v]
    out,        \* outcome of the last get
    ty,         \* angular type in use: "none", "PitchYaw", "PitchYawClamped"
    op,         \* angular operation applied: "none", "normalize", "sub_pitchyaw", "step_toward",
                \* "clamp_u", "clamp_v", "clamp", "add", "mul", "tick"
    self,       \* receiver of the operation
    other,      \* argument of sub_pitchyaw and +, target of step_toward, (min, max) of
                \* the clamps, derivative of tick
    dangle,     \* step size of step_toward, factor of *, duration of tick
    res,        \* result of the operation: [panic, v]
    kind,       \* stepper in use: "none", "LinearF32", "LinearVec3", "LinearQuat",
                \* "LinearPitchYaw", "LinearPitchYawClamped", "SpringF32",
                \* "SpringVec3", "SpringVec2", "SpringPitchYawClamped"
    current,    \* the stepper's current value
    target,     \* the stepper's target value
    velocity,   \* SpringStepper: the velocity
    speed,      \* LinearStepper: the speed
    spring,     \* SpringStepper: the spring constant
    damping,    \* SpringStepper: the damping coefficient
    call,       \* last call on the stepper: "none", "new", "set_target", "tick"
    failed,     \* the last call panicked
    arg,        \* value handed to the last new / set_target
    dt,         \* duration handed to the last tick
    prev,       \* the current value before the last call
    ticks,      \* number of ticks, counted up to MaxTicks where the values are not confined
    hist        \* what the calls so far were: [retargeted: set_target was called after
                \* a tick, maxdt: the longest duration handed to tick so far
                \* (SpringStepper<f32>), rest: the stepper was constructed with velocity
                \* zero, angle: what angle_between returned in the last tick
                \* (LinearStepper<Quat>), phase: "even" or "odd" as the number of ticks
                \* is, "off" where ticks are not counted for ever]

curveVars == <<ctor, nin, built, segments, qt, out>>
angleVars == <<ty, op, self, other, dangle, res>>
stepperVars == <<kind, current, target, velocity, speed, spring, damping,
                 call, failed, arg, dt, prev, ticks, hist>>
vars == <<ctor, nin, built, segments, qt, out, ty, op, self, other, dangle, res,
          kind, current, target, velocity, speed, spring, damping,
          call, failed, arg, dt, prev, ticks, hist>>

\* The smallest power of two whose neighbours f32 cannot tell apart
BigP == Pow2(F32Bits + 1)
PVals == (0..MaxP) \cup {BigP}
CtorTimes == {k * TStep : k \in 0..MaxTk}
QTimes == {QStep * k : k \in (0 - QMargin)..((TOne \div QStep) + QMargin)}
NoQuery == [nan |-> FALSE, v |-> 0]

SeqsUpTo(S, n) == UNION {[1..m -> S] : m \in 0..n}

\* No curve built, nothing evaluated
CurveIdle ==
    /\ ctor = "none"
    /\ nin = 0
    /\ built = "none"
    /\ segments = <<>>
    /\ qt = NoQuery
    /\ out = NoOut

\* No angular value in use
AngleIdle ==
    /\ ty = "none"
    /\ op = "none"
    /\ self = PY_default
    /\ other = PY_default
    /\ dangle = 0
    /\ res = Ok(PY_default)

\* No call made yet
NoHist == [retargeted |-> FALSE, maxdt |-> 0, rest |-> TRUE, angle |-> 0, phase |-> "off"]

\* hist after one more tick
Ticked(h) ==
    [h EXCEPT !.phase = IF @ = "off" THEN "off" ELSE IF @ = "even" THEN "odd" ELSE "even"]

\* No stepper constructed
StepperIdle ==
    /\ kind = "none"
    /\ current = 0
    /\ target = 0
    /\ velocity = 0
    /\ speed = 0
    /\ spring = 0
    /\ damping = 0
    /\ call = "none"
    /\ failed = FALSE
    /\ arg = 0
    /\ dt = 0
    /\ prev = 0
    /\ ticks = 0
    /\ hist = NoHist

InitCurve == CurveIdle /\ AngleIdle /\ StepperIdle

New ==
    /\ built = "none"
    /\ \E segs \in SeqsUpTo(CtorTimes \X PVals \X PVals, MaxSegs) :
        /\ ctor' = "new"
        /\ nin' = Len(segs)
        /\ IF new_panics(segs)
           THEN built' = "panic" /\ segments' = <<>>
           ELSE built' = "ok" /\ segments' = new(segs)
    /\ UNCHANGED <<qt, out, angleVars, stepperVars>>

ContinuousUniform ==
    /\ built = "none"
    /\ \E points \in SeqsUpTo(PVals, MaxPoints) :
        /\ ctor' = "continuous_uniform"
        /\ nin' = Len(points)
        /\ IF continuous_uniform_panics(points)
           THEN built' = "panic" /\ segments' = <<>>
           ELSE built' = "ok" /\ segments' = continuous_uniform(points)
    /\ UNCHANGED <<qt, out, angleVars, stepperVars>>

Continuous ==
    /\ built = "none"
    /\ \E points \in SeqsUpTo(CtorTimes \X PVals, MaxPoints) :
        /\ ctor' = "continuous"
        /\ nin' = Len(points)
        /\ IF continuous_panics(points)
           THEN built' = "panic" /\ segments' = <<>>
           ELSE built' = "ok" /\ segments' = continuous(points)
    /\ UNCHANGED <<qt, out, angleVars, stepperVars>>

\* get borrows the curve immutably: an evaluation that follows another starts
\* from the same curve, so one evaluation per behaviour reaches every state.
Get ==
    /\ built = "ok"
    /\ out = NoOut
    /\ \E t \in QTimes :
        /\ qt' = [nan |-> FALSE, v |-> t]
        /\ out' \in get(segments, t)
    /\ UNCHANGED <<ctor, nin, built, segments, angleVars, stepperVars>>

GetNaN ==
    /\ built = "ok"
    /\ out = NoOut
    /\ qt' = [nan |-> TRUE, v |-> 0]
    /\ out' \in get_nan(segments)
    /\ UNCHANGED <<ctor, nin, built, segments, angleVars, stepperVars>>

NextCurve == New \/ ContinuousUniform \/ Continuous \/ Get \/ GetNaN

SpecCurve == InitCurve /\ [][NextCurve]_vars

\* ------------------------------------------------- angular operations
\* The angles offered as inputs: the f32 products g as f32 * (PI / 6.)
Rad(g) == f32_mul(PiSixth, g)

\* Pitches around zero and beyond either end of [-PI/2, PI/2]
Pitches == {Rad(g) : g \in {0 - MaxPitch, 0 - 1, 0, 1, MaxPitch}}
PitchYawVals == {PY_new(Rad(u), v) : u \in (0 - MaxYaw)..MaxYaw, v \in Pitches}
ClampVals == {Rad(0 - 1), 0, Rad(MaxClamp)}
Coords == {Rad(g) : g \in (0 - MaxCoord)..MaxCoord}
PitchYawClampedVals ==
    {PYC_new_with_clamps(u, v, cp, cy) :
        u \in Coords, v \in {Rad(0 - MaxCoord), 0, Rad(MaxCoord)},
        cp \in ClampVals, cy \in ClampVals}
Dangles == {Rad(g) : g \in (0 - 1)..MaxDangle}

\* One value of one of the two types, no operation applied yet
InitAngle ==
    /\ CurveIdle
    /\ StepperIdle
    /\ ty \in {"PitchYaw", "PitchYawClamped"}
    /\ self \in (IF ty = "PitchYaw" THEN PitchYawVals ELSE PitchYawClampedVals)
    /\ op = "none"
    /\ other = self
    /\ dangle = 0
    /\ res = Ok(self)

PitchYawNormalize ==
    /\ ty = "PitchYaw" /\ op = "none"
    /\ op' = "normalize"
    /\ res' = Ok(PY_normalize(self))
    /\ UNCHANGED <<curveVars, stepperVars, ty, self, other, dangle>>

PitchYawSub ==
    /\ ty = "PitchYaw" /\ op = "none"
    /\ \E o \in PitchYawVals :
        /\ other' = o
        /\ res' = Ok(PY_sub_pitchyaw(self, o))
    /\ op' = "sub_pitchyaw"
    /\ UNCHANGED <<curveVars, stepperVars, ty, self, dangle>>

PitchYawStepToward ==
    /\ ty = "PitchYaw" /\ op = "none"
    /\ \E tg \in PitchYawVals, d \in Dangles :
        /\ other' = tg
        /\ dangle' = d
        /\ res' = Ok(PY_step_toward(self, tg, d))
    /\ op' = "step_toward"
    /\ UNCHANGED <<curveVars, stepperVars, ty, self>>

PitchYawClampedNormalize ==
    /\ ty = "PitchYawClamped" /\ op = "none"
    /\ op' = "normalize"
    /\ res' = PYC_normalize(self)
    /\ UNCHANGED <<curveVars, stepperVars, ty, self, other, dangle>>

PitchYawClampedSub ==
    /\ ty = "PitchYawClamped" /\ op = "none"
    /\ \E o \in PitchYawClampedVals :
        /\ other' = o
        /\ res' = Ok(PYC_sub_pitchyaw(self, o))
    /\ op' = "sub_pitchyaw"
    /\ UNCHANGED <<curveVars, stepperVars, ty, self, dangle>>

PitchYawClampedStepToward ==
    /\ ty = "PitchYawClamped" /\ op = "none"
    /\ \E tg \in PitchYawClampedVals, d \in Dangles :
        /\ other' = tg
        /\ dangle' = d
        /\ res' = PYC_step_toward(self, tg, d)
    /\ op' = "step_toward"
    /\ UNCHANGED <<curveVars, stepperVars, ty, self>>

\* Arguments of clamp_u / clamp_v / clamp, of Mul<f32> and of
\* TickDerivative::tick
ClampArgs == {Rad(0 - MaxClamp), 0, Rad(MaxClamp)}
Factors == (0 - 1)..MaxClamp
Derivatives == {Vec2_new(Rad(x), Rad(y)) : x \in {0 - 1, 0, 1}, y \in {0 - 1, 0, 1}}
AngleDts == 0..MaxDt

\* PitchYawClamped::clamp_u(min, max) : other records (min, max)
PitchYawClampedClampU ==
    /\ ty = "PitchYawClamped" /\ op = "none"
    /\ \E min \in ClampArgs, max \in ClampArgs :
        /\ other' = Vec2_new(min, max)
        /\ res' = PYC_clamp_u(self, min, max)
    /\ op' = "clamp_u"
    /\ UNCHANGED <<curveVars, stepperVars, ty, self, dangle>>

\* PitchYawClamped::clamp_v(min, max)
PitchYawClampedClampV ==
    /\ ty = "PitchYawClamped" /\ op = "none"
    /\ \E min \in ClampArgs, max \in ClampArgs :
        /\ other' = Vec2_new(min, max)
        /\ res' = PYC_clamp_v(self, min, max)
    /\ op' = "clamp_v"
    /\ UNCHANGED <<curveVars, stepperVars, ty, self, dangle>>

\* PitchYawClamped::clamp(min, max)
PitchYawClampedClamp ==
    /\ ty = "PitchYawClamped" /\ op = "none"
    /\ \E min \in ClampArgs, max \in ClampArgs :
        /\ other' = Vec2_new(min, max)
        /\ res' = PYC_clamp(self, min, max)
    /\ op' = "clamp"
    /\ UNCHANGED <<curveVars, stepperVars, ty, self, dangle>>

\* self + rhs
PitchYawClampedAdd ==
    /\ ty = "PitchYawClamped" /\ op = "none"
    /\ \E rhs \in PitchYawClampedVals :
        /\ other' = rhs
        /\ res' = Ok(PYC_add(self, rhs))
    /\ op' = "add"
    /\ UNCHANGED <<curveVars, stepperVars, ty, self, dangle>>

\* self * rhs : dangle records the factor
PitchYawClampedMul ==
    /\ ty = "PitchYawClamped" /\ op = "none"
    /\ \E rhs \in Factors :
        /\ dangle' = rhs
        /\ res' = Ok(PYC_mul(self, rhs))
    /\ op' = "mul"
    /\ UNCHANGED <<curveVars, stepperVars, ty, self, other>>

\* TickDerivative::tick(dt, derivative) : other records the derivative,
\* dangle the duration
PitchYawClampedTick ==
    /\ ty = "PitchYawClamped" /\ op = "none"
    /\ \E d \in AngleDts, derivative \in Derivatives :
        /\ other' = derivative
        /\ dangle' = d
        /\ res' = PYC_tick(self, d, derivative)
    /\ op' = "tick"
    /\ UNCHANGED <<curveVars, stepperVars, ty, self>>

NextAngle ==
    \/ PitchYawNormalize \/ PitchYawSub \/ PitchYawStepToward
    \/ PitchYawClampedNormalize \/ PitchYawClampedSub \/ PitchYawClampedStepToward
    \/ PitchYawClampedClampU \/ PitchYawClampedClampV \/ PitchYawClampedClamp
    \/ PitchYawClampedAdd \/ PitchYawClampedMul \/ PitchYawClampedTick

SpecAngle == InitAngle /\ [][NextAngle]_vars

\* ------------------------------------------------------------- steppers
\* Scalar values: whole numbers around zero, and f32 values around BigP,
\* where f32 is spaced 2 below and 4 above
F32Small == (0 - MaxVal)..MaxVal
F32Big == {RoundF32Int(BigP + 2 * k) : k \in (0 - MaxVal)..MaxVal}
F32Vals == F32Small \cup F32Big
\* The targets offered next to the target t: those a stepper reaches from t
\* in a few ticks
F32Near(t) == IF Abs(t) < F32Exact THEN F32Small ELSE F32Big
Speeds == (0 - 1)..MaxSpeed
Dts == 0..MaxDt
\* Yaws at zero, at -PI, below PI and beyond PI
StepperYaws == {Rad(g) : g \in {0 - 6, 0, 5, 7}}
StepperPitchYawVals == {PY_new(u, v) : u \in StepperYaws, v \in {0, Rad(MaxPitch)}}
StepperPitchYawClampedVals ==
    {PYC_new_with_clamps(Rad(u), v, Rad(MaxClamp), cy) :
        u \in {0 - MaxCoord, 0, MaxCoord}, v \in {0, Rad(MaxCoord)},
        cy \in ClampVals}
SpringPitchYawClampedVals ==
    {PYC_new_with_clamps(Rad(u), v, Rad(MaxClamp), cy) :
        u \in {0, MaxCoord}, v \in {0, Rad(MaxCoord)}, cy \in {0, Rad(MaxClamp)}}
\* Vectors along the x axis
Vec3Vals == {Vec3_new(x, 0, 0) : x \in F32Vals}
Vec3Near(t) == {Vec3_new(x, 0, 0) : x \in F32Near(t.x)}
\* Rotations about the y axis, no two of them half a turn apart
QuatVals == {Quat_from_rotation_y(Rad(g)) : g \in {0 - 5, 0 - 1, 0, 2}}
LinearKinds ==
    {"LinearF32", "LinearVec3", "LinearQuat", "LinearPitchYaw", "LinearPitchYawClamped"}
SpringKinds == {"SpringF32", "SpringVec3", "SpringVec2", "SpringPitchYawClamped"}

\* Scalar spring inputs: exact fractions
DtDen == 4
SpringF32Vals == {QInt(i) : i \in (0 - 1)..1}
SpringConstants == {QInt(1), QInt(4)}
SpringDts == {QInt(0), Frac(1, DtDen), QInt(1), QInt(2)}
Dampings(k) == {critical_damp_coeff(k), QInt(0)}

\* Vector spring inputs: exact fractions along the x axis
SpringVec3Vals == {Vec3_new(QInt(i), QInt(0), QInt(0)) : i \in 0..1}
SpringVec2Vals == {Vec2_new(QInt(i), QInt(0)) : i \in 0..1}
VectorDts == {QInt(0), Frac(1, DtDen)}

\* Angular spring inputs: whole numbers
AngularSprings == {1}
AngularDampings == {2}
AngularDts == {0, 1}

\* The spring constants, damping coefficients and durations offered to a
\* SpringStepper of kind k
SpringsOf(k) ==
    IF k = "SpringF32" THEN SpringConstants
    ELSE IF k = "SpringPitchYawClamped" THEN AngularSprings
    ELSE {QInt(1)}
DampingsOf(k, sc) ==
    IF k = "SpringF32" THEN Dampings(sc)
    ELSE IF k = "SpringPitchYawClamped" THEN AngularDampings
    ELSE {critical_damp_coeff(sc)}
ZeroDt(k) == IF k = "SpringPitchYawClamped" THEN 0 ELSE QInt(0)

\* D::default() : the velocity SpringStepper::new gives a stepper of kind k
DefaultVelocity(k) ==
    IF k = "SpringF32" THEN QInt(0)
    ELSE IF k = "SpringVec3" THEN Vec3_new(QInt(0), QInt(0), QInt(0))
    ELSE IF k = "SpringVec2" THEN Vec2_new(QInt(0), QInt(0))
    ELSE Vec2_new(0, 0)

\* The velocities offered to new_with_initial_velocity
InitialVelocities(k) ==
    IF k = "SpringF32" THEN {QInt(1)}
    ELSE IF k = "SpringVec3" THEN {Vec3_new(QInt(1), QInt(0), QInt(0))}
    ELSE IF k = "SpringVec2" THEN {Vec2_new(QInt(1), QInt(0))}
    ELSE {Vec2_new(Rad(1), 0)}

\* Speeds: whole numbers for the scalar stepper, angles per second otherwise
SpeedsOf(k) ==
    IF k \in {"LinearF32", "LinearVec3"} THEN Speeds ELSE {Rad(sp) : sp \in Speeds}

ValuesOf(k) ==
    IF k = "LinearF32" THEN F32Vals
    ELSE IF k = "LinearVec3" THEN Vec3Vals
    ELSE IF k = "LinearQuat" THEN QuatVals
    ELSE IF k = "LinearPitchYaw" THEN StepperPitchYawVals
    ELSE IF k = "SpringF32" THEN SpringF32Vals
    ELSE IF k = "SpringVec3" THEN SpringVec3Vals
    ELSE IF k = "SpringVec2" THEN SpringVec2Vals
    ELSE IF k = "SpringPitchYawClamped" THEN SpringPitchYawClampedVals
    ELSE StepperPitchYawClampedVals

\* The stepper is constructed and has not panicked
Live(k) == kind = k /\ ~failed

\* A tick can move the value without bound
Unconfined == kind \in SpringKinds \/ speed < 0

\* A new target given midway sends the value through ever new f32 roundings
Drifting == kind = "LinearPitchYaw"

InitStepper == CurveIdle /\ AngleIdle /\ StepperIdle

\* LinearStepper::new(value, speed)
LinearStepperNew ==
    /\ kind = "none"
    /\ \E k \in LinearKinds : \E value \in ValuesOf(k), sp \in SpeedsOf(k) :
        /\ kind' = k
        /\ current' = value
        /\ target' = value
        /\ speed' = sp
        /\ arg' = value
        /\ prev' = value
    /\ call' = "new"
    /\ UNCHANGED <<curveVars, angleVars, velocity, spring, damping, failed, dt,
                   ticks, hist>>

\* SpringStepper::new(value, spring, damping)
SpringStepperNew ==
    /\ kind = "none"
    /\ \E k \in SpringKinds : \E value \in ValuesOf(k), sc \in SpringsOf(k) :
        \E c \in DampingsOf(k, sc) :
            /\ kind' = k
            /\ current' = value
            /\ target' = value
            /\ velocity' = DefaultVelocity(k)
            /\ spring' = sc
            /\ damping' = c
            /\ arg' = value
            /\ prev' = value
            /\ dt' = ZeroDt(k)
            /\ hist' = [hist EXCEPT !.maxdt = ZeroDt(k)]
    /\ call' = "new"
    /\ UNCHANGED <<curveVars, angleVars, speed, failed, ticks>>

\* SpringStepper::new_with_initial_velocity(value, velocity, spring, damping)
SpringStepperNewWithInitialVelocity ==
    /\ kind = "none"
    /\ \E k \in SpringKinds : \E value \in ValuesOf(k), v \in InitialVelocities(k),
                                  sc \in SpringsOf(k) :
        \E c \in DampingsOf(k, sc) :
            /\ kind' = k
            /\ current' = value
            /\ target' = value
            /\ velocity' = v
            /\ spring' = sc
            /\ damping' = c
            /\ arg' = value
            /\ prev' = value
            /\ dt' = ZeroDt(k)
            /\ hist' = [hist EXCEPT !.maxdt = ZeroDt(k), !.rest = FALSE]
    /\ call' = "new"
    /\ UNCHANGED <<curveVars, angleVars, speed, failed, ticks>>

\* Bookkeeping of a set_target(v) call
SetCalled(v) ==
    /\ (Unconfined \/ Drifting) => ticks < MaxTicks
    /\ call' = "set_target"
    /\ arg' = v
    /\ prev' = current
    /\ UNCHANGED <<curveVars, angleVars, kind, current, velocity, speed, spring,
                   damping, dt, ticks>>

\* Bookkeeping of a tick(d) call
TickCalled(d) ==
    /\ Unconfined => ticks < MaxTicks
    /\ ticks' = IF Unconfined \/ (Drifting /\ ticks < MaxTicks) THEN ticks + 1 ELSE ticks
    /\ call' = "tick"
    /\ dt' = d
    /\ prev' = current
    /\ UNCHANGED <<curveVars, angleVars, kind, target, speed, spring, damping, arg>>

\* LinearStepper<f32>::set_target
LinearF32SetTarget ==
    /\ Live("LinearF32")
    /\ \E v \in F32Near(target) :
        /\ SetCalled(v)
        /\ target' = v
    /\ UNCHANGED <<failed, hist>>

\* LinearStepper<f32>::tick
LinearF32Tick(d) ==
    /\ Live("LinearF32")
    /\ TickCalled(d)
    /\ current' = LinearStepper_f32_tick(current, target, speed, d)
    /\ hist' = Ticked(hist)
    /\ UNCHANGED <<velocity, failed>>

\* LinearStepper<Vec3>::set_target
LinearVec3SetTarget ==
    /\ Live("LinearVec3")
    /\ \E v \in Vec3Near(target) :
        /\ SetCalled(v)
        /\ target' = LinearStepper_Vec3_set_target(v)
    /\ UNCHANGED <<failed, hist>>

\* LinearStepper<Vec3>::tick
LinearVec3Tick(d) ==
    /\ Live("LinearVec3")
    /\ TickCalled(d)
    /\ current' = LinearStepper_Vec3_tick(current, target, speed, d)
    /\ hist' = Ticked(hist)
    /\ UNCHANGED <<velocity, failed>>

\* LinearStepper<Quat>::set_target
LinearQuatSetTarget ==
    /\ Live("LinearQuat")
    /\ \E v \in QuatVals :
        /\ SetCalled(v)
        /\ target' = LinearStepper_Quat_set_target(v)
    /\ UNCHANGED <<failed, hist>>

\* LinearStepper<Quat>::tick : angle_between and slerp return one of the
\* results f32 can give
LinearQuatTick(d) ==
    /\ Live("LinearQuat")
    /\ TickCalled(d)
    /\ \E delta_angle \in Quat_angle_between(current, target) :
        /\ hist' = [Ticked(hist) EXCEPT !.angle = delta_angle]
        /\ current' \in LinearStepper_Quat_tick(current, target, speed, d, delta_angle)
    /\ UNCHANGED <<velocity, failed>>

\* LinearStepper<PitchYaw>::set_target
LinearPitchYawSetTarget ==
    /\ Live("LinearPitchYaw")
    /\ \E v \in StepperPitchYawVals :
        /\ SetCalled(v)
        /\ target' = LinearStepper_PitchYaw_set_target(v)
    /\ UNCHANGED <<failed, hist>>

\* LinearStepper<PitchYaw>::tick
LinearPitchYawTick(d) ==
    /\ Live("LinearPitchYaw")
    /\ TickCalled(d)
    /\ current' = LinearStepper_PitchYaw_tick(current, target, speed, d)
    /\ hist' = Ticked(hist)
    /\ UNCHANGED <<velocity, failed>>

\* LinearStepper<PitchYawClamped>::set_target : a panic leaves the target
LinearPitchYawClampedSetTarget ==
    /\ Live("LinearPitchYawClamped")
    /\ \E v \in StepperPitchYawClampedVals :
        LET r == LinearStepper_PitchYawClamped_set_target(v)
        IN  /\ SetCalled(v)
            /\ failed' = r.panic
            /\ target' = IF r.panic THEN target ELSE r.v
    /\ UNCHANGED hist

\* LinearStepper<PitchYawClamped>::tick : a panic leaves the current value
LinearPitchYawClampedTick(d) ==
    /\ Live("LinearPitchYawClamped")
    /\ TickCalled(d)
    /\ LET r == LinearStepper_PitchYawClamped_tick(current, target, speed, d)
       IN  /\ failed' = r.panic
           /\ current' = IF r.panic THEN current ELSE r.v
    /\ hist' = Ticked(hist)
    /\ UNCHANGED velocity

\* SpringStepper<f32, f32>::set_target
SpringF32SetTarget ==
    /\ Live("SpringF32")
    /\ \E v \in SpringF32Vals :
        /\ SetCalled(v)
        /\ target' = v
    /\ hist' = [hist EXCEPT !.retargeted = @ \/ call = "tick"]
    /\ UNCHANGED failed

\* SpringStepper<f32, f32>::tick
SpringF32Tick(d) ==
    /\ Live("SpringF32")
    /\ TickCalled(d)
    /\ hist' = [Ticked(hist) EXCEPT !.maxdt = IF QLess(@, d) THEN d ELSE @]
    /\ LET r == SpringStepper_f32_tick(current, target, velocity, spring, damping, d)
       IN  /\ velocity' = r.velocity
           /\ current' = r.current
    /\ UNCHANGED failed

\* SpringStepper<Vec3>::set_target
SpringVec3SetTarget ==
    /\ Live("SpringVec3")
    /\ \E v \in SpringVec3Vals :
        /\ SetCalled(v)
        /\ target' = SpringStepper_Vec3_set_target(v)
    /\ UNCHANGED <<failed, hist>>

\* SpringStepper<Vec3>::tick
SpringVec3Tick(d) ==
    /\ Live("SpringVec3")
    /\ TickCalled(d)
    /\ LET r == SpringStepper_Vec3_tick(current, target, velocity, spring, damping, d)
       IN  /\ velocity' = r.velocity
           /\ current' = r.current
    /\ hist' = Ticked(hist)
    /\ UNCHANGED failed

\* SpringStepper<Vec2>::set_target
SpringVec2SetTarget ==
    /\ Live("SpringVec2")
    /\ \E v \in SpringVec2Vals :
        /\ SetCalled(v)
        /\ target' = SpringStepper_Vec2_set_target(v)
    /\ UNCHANGED <<failed, hist>>

\* SpringStepper<Vec2>::tick
SpringVec2Tick(d) ==
    /\ Live("SpringVec2")
    /\ TickCalled(d)
    /\ LET r == SpringStepper_Vec2_tick(current, target, velocity, spring, damping, d)
       IN  /\ velocity' = r.velocity
           /\ current' = r.current
    /\ hist' = Ticked(hist)
    /\ UNCHANGED failed

\* SpringStepper<PitchYawClamped, Vec2>::set_target
SpringPitchYawClampedSetTarget ==
    /\ Live("SpringPitchYawClamped")
    /\ \E v \in SpringPitchYawClampedVals :
        /\ SetCalled(v)
        /\ target' = SpringStepper_PitchYawClamped_set_target(v)
    /\ UNCHANGED <<failed, hist>>

\* SpringStepper<PitchYawClamped, Vec2>::tick : the velocity is assigned
\* before the panic of normalize
SpringPitchYawClampedTick(d) ==
    /\ Live("SpringPitchYawClamped")
    /\ TickCalled(d)
    /\ LET r == SpringStepper_PitchYawClamped_tick(current, target, velocity,
                                                   spring, damping, d)
       IN  /\ velocity' = r.velocity
           /\ failed' = r.current.panic
           /\ current' = IF r.current.panic THEN current ELSE r.current.v
    /\ hist' = Ticked(hist)

LinearTick(d) ==
    \/ LinearF32Tick(d)
    \/ LinearVec3Tick(d)
    \/ LinearQuatTick(d)
    \/ LinearPitchYawTick(d)
    \/ LinearPitchYawClampedTick(d)

NextLinear ==
    \/ LinearStepperNew
    \/ LinearF32SetTarget
    \/ LinearVec3SetTarget
    \/ LinearQuatSetTarget
    \/ LinearPitchYawSetTarget
    \/ LinearPitchYawClampedSetTarget
    \/ \E d \in Dts : LinearF32Tick(d)
    \/ \E d \in Dts : LinearVec3Tick(d)
    \/ \E d \in Dts : LinearQuatTick(d)
    \/ \E d \in Dts : LinearPitchYawTick(d)
    \/ \E d \in Dts : LinearPitchYawClampedTick(d)

NextSpring ==
    \/ SpringStepperNew
    \/ SpringStepperNewWithInitialVelocity
    \/ SpringF32SetTarget
    \/ SpringVec3SetTarget
    \/ SpringVec2SetTarget
    \/ SpringPitchYawClampedSetTarget
    \/ \E d \in SpringDts : SpringF32Tick(d)
    \/ \E d \in VectorDts : SpringVec3Tick(d)
    \/ \E d \in VectorDts : SpringVec2Tick(d)
    \/ \E d \in AngularDts : SpringPitchYawClampedTick(d)

NextStepper == NextLinear \/ NextSpring

SpecStepper == InitStepper /\ [][NextStepper]_vars

\* A LinearStepper driven as its callers drive it: constructed with a positive
\* speed, given a target once, then ticked for ever with one positive
\* duration, held in dt from the start
SetOnce ==
    /\ call = "new"
    /\ \/ LinearF32SetTarget
       \/ LinearVec3SetTarget
       \/ LinearQuatSetTarget
       \/ LinearPitchYawSetTarget
       \/ LinearPitchYawClampedSetTarget

TickPositive == LinearTick(dt)

\* The state LinearStepper::new(value, speed) returns
InitSettle ==
    /\ CurveIdle
    /\ AngleIdle
    /\ kind \in LinearKinds
    /\ current \in ValuesOf(kind)
    /\ target = current
    /\ speed \in {sp \in SpeedsOf(kind) : sp > 0}
    /\ arg = current
    /\ prev = current
    /\ call = "new"
    /\ velocity = 0
    /\ spring = 0
    /\ damping = 0
    /\ failed = FALSE
    /\ dt \in Dts \ {0}
    /\ ticks = 0
    /\ hist = [NoHist EXCEPT !.phase = "even"]

NextSettle == SetOnce \/ TickPositive

SpecSettle == InitSettle /\ [][NextSettle]_vars /\ WF_vars(TickPositive)

\* ------------------------------------------------------------- claims
Queried == built = "ok" /\ out.k # "none"

\* t_start values are non-decreasing
Sorted(segs) == \A i \in 1..(Len(segs) - 1) : segs[i].t <= segs[i + 1].t

\* t_start values are strictly increasing
Strict(segs) == \A i \in 1..(Len(segs) - 1) : segs[i].t < segs[i + 1].t

\* C1 (as claimed): once a curve has been built, get(t) with a finite t never
\* fails; stated for curves whose t_start values are in order, where a clamped
\* t below the first t_start is said to evaluate segment 0.
C1_GetNeverFails ==
    (Queried /\ ~qt.nan /\ Sorted(segments)) => out.k # "panic"

\* The reference of C2: greatest t_start <= t', and the blend on that segment
RefIndex(segs, tc) ==
    CHOOSE i \in 1..Len(segs) :
        /\ segs[i].t <= tc
        /\ \A j \in 1..Len(segs) : segs[j].t <= tc => segs[j].t <= segs[i].t
RefLen(segs, i) == IF i = Len(segs) THEN TOne - segs[i].t ELSE segs[i + 1].t - segs[i].t
RefValue(segs, t) ==
    LET tc == IF t < 0 THEN 0 ELSE IF t > TOne THEN TOne ELSE t
        i == RefIndex(segs, tc)
        len == RefLen(segs, i)
    IN  FAdd(segs[i].start,
             FMul(FSub(segs[i].end, segs[i].start), Frac(tc - segs[i].t, len)))

StrictFromZero(segs) ==
    /\ Len(segs) >= 1
    /\ segs[1].t = 0
    /\ Strict(segs)
    /\ segs[Len(segs)].t < TOne

\* C2: on a curve whose t_start values are strictly increasing from 0 and
\* end below 1, get(t) equals start_i + (end_i - start_i) * ((t' - t_start_i) / len_i)
\* for every finite t, with t' the clamped t and i the segment of the
\* greatest t_start <= t'; a two-point curve from 1 to 0 gives 1/2 at t = 1/2.
C2_GetMatchesReference ==
    (Queried /\ ~qt.nan /\ StrictFromZero(segments)) =>
        /\ out = RefValue(segments, qt.v)
        /\ (segments = <<[t |-> 0, start |-> 1, end |-> 0]>> /\ 2 * qt.v = TOne)
            => out = Frac(1, 2)

\* C2 witness: a query strictly inside the second segment of such a curve
\* that returned a proper fraction
C2_Witness ==
    /\ Queried /\ ~qt.nan /\ StrictFromZero(segments)
    /\ Len(segments) >= 2
    /\ qt.v > segments[2].t
    /\ segments[2].t + segment_length(segments, 1) > qt.v
    /\ out.k = "num" /\ out.d # 1

\* C3 (as claimed): a curve built by continuous_uniform returns exactly the
\* first point at get(0) and exactly the last point at get(1).
C3_UniformEndpoints ==
    (Queried /\ ~qt.nan /\ ctor = "continuous_uniform") =>
        /\ qt.v = 0 => out = Frac(segments[1].start, 1)
        /\ qt.v = TOne => out = Frac(segments[Len(segments)].end, 1)

\* C3 (amended): a curve built by continuous_uniform returns exactly the
\* first point at get(0); at get(1) it returns the f32 value of
\* start + (end - start) on the last segment, which is exactly the last point
\* whenever the f32 difference end - start is exact.
C3_UniformEndpointsRounded ==
    (Queried /\ ~qt.nan /\ ctor = "continuous_uniform") =>
        LET last == segments[Len(segments)] IN
        /\ qt.v = 0 => out = Frac(segments[1].start, 1)
        /\ qt.v = TOne =>
            /\ out = Frac(RoundF32Int(last.start + RoundF32Int(last.end - last.start)), 1)
            /\ RoundF32Int(last.end - last.start) = last.end - last.start
                => out = Frac(last.end, 1)

\* C3 witness: get(1) on a uniform curve of three points returned the last
\* point, which differs from the point before it
C3_Witness ==
    /\ Queried /\ ~qt.nan /\ ctor = "continuous_uniform"
    /\ nin = 3
    /\ qt.v = TOne
    /\ segments[2].start # segments[2].end
    /\ out = Frac(segments[2].end, 1)

\* Continuity at the boundary that starts segment i (1-based, i >= 2): the end
\* of the previous segment, the value of get there and the start of segment i
\* coincide.
ContinuousAtQuery ==
    \A i \in 2..Len(segments) :
        qt.v = segments[i].t =>
            /\ out = Frac(segments[i - 1].end, 1)
            /\ out = Frac(segments[i].start, 1)

\* t_start values strictly increasing within [0, 1): every segment has a
\* positive length
WellFormed(segs) ==
    /\ Len(segs) >= 1
    /\ segs[1].t >= 0
    /\ Strict(segs)
    /\ segs[Len(segs)].t < TOne

\* C4 (as claimed): get is continuous across the segment boundaries of every
\* constructed curve, whichever constructor built it (new included); stated
\* for curves whose t_start values are strictly increasing within [0, 1).
C4_ContinuousAnyCtor ==
    (Queried /\ ~qt.nan /\ WellFormed(segments)) => ContinuousAtQuery

\* C4 (amended): get is continuous across the segment boundaries of every
\* curve built by continuous_uniform or continuous whose t_start values are
\* strictly increasing within [0, 1).
C4_ContinuousChained ==
    (/\ Queried /\ ~qt.nan
     /\ ctor \in {"continuous_uniform", "continuous"}
     /\ WellFormed(segments)) => ContinuousAtQuery

\* C4 witness: a query at an interior boundary of a chained curve whose
\* neighbouring segments are not flat
C4_Witness ==
    /\ Queried /\ ~qt.nan /\ ctor = "continuous"
    /\ WellFormed(segments)
    /\ Len(segments) >= 2
    /\ qt.v = segments[2].t
    /\ segments[1].start # segments[1].end
    /\ segments[2].start # segments[2].end
    /\ out = Frac(segments[1].end, 1)

MinInputs(c) == IF c = "new" THEN 1 ELSE 2

\* C5: a constructor given fewer than its minimum number of inputs (2 points
\* for continuous_uniform and continuous, 1 segment for new) aborts and yields
\* no curve; given at least the minimum it succeeds with at least one segment.
C5_ConstructionMinimum ==
    ctor # "none" =>
        /\ nin < MinInputs(ctor) => (built = "panic" /\ segments = <<>>)
        /\ nin >= MinInputs(ctor) => (built = "ok" /\ Len(segments) >= 1)

\* C5 witness: continuous was given a single point and aborted
C5_Witness == ctor = "continuous" /\ nin = 1 /\ built = "panic"


\* const EPSILON: f32 = 0.0001 : the allowance the repository's tests give to
\* f32 rounding, in units of 2^-24 rad
EPSILON == 1677

\* x and y are within EPSILON of each other
Near(x, y) == Abs(Num(x) - Num(y)) <= EPSILON

\* x and y are the same angle up to whole turns, within EPSILON
Congruent(x, y) ==
    LET m == (Num(x) - Num(y)) % TwoPi IN m <= EPSILON \/ TwoPi - m <= EPSILON

\* Length of the shorter arc between the yaws x and y
WrapDist(x, y) ==
    LET m == (Num(x) - Num(y)) % TwoPi IN IF m <= PI THEN m ELSE TwoPi - m

IsSub == ty = "PitchYaw" /\ op = "sub_pitchyaw"

\* C6 (as claimed): the yaw of a.sub_pitchyaw(b) is congruent to a.y - b.y
\* modulo 2 pi (within EPSILON) and lies in (-pi, pi]; a yaw one step below pi
\* minus a yaw one step above -pi is +2 steps.
C6_SubYawHalfOpenAbove ==
    IsSub =>
        /\ Congruent(res.v.y, Num(self.y) - Num(other.y))
        /\ (0 - PI) < Num(res.v.y) /\ Num(res.v.y) <= PI
        /\ (self.y = Rad(5) /\ other.y = Rad(0 - 5)) => Near(res.v.y, Rad(2))

\* C6 (amended): the yaw of a.sub_pitchyaw(b) is congruent to a.y - b.y
\* modulo 2 pi (within EPSILON) and lies in [-pi, pi): +pi is never returned,
\* and -pi is returned when the f32 difference a.y - b.y is exactly pi or -pi;
\* a difference that is half a turn only up to f32 rounding comes out within
\* EPSILON of -pi or of +pi, as the rounding of a.y - b.y + pi decides (just
\* below +pi for -7pi/6 minus -pi/6); the pitch is the f32 difference of the
\* pitches; a yaw one step below pi minus a yaw one step above -pi is -2 steps.
C6_SubYawHalfOpenBelow ==
    IsSub =>
        /\ Congruent(res.v.y, Num(self.y) - Num(other.y))
        /\ (0 - PI) <= Num(res.v.y) /\ Num(res.v.y) < PI
        /\ f32_abs(f32_sub(self.y, other.y)) = PI => res.v.y = 0 - PI
        /\ Near(WrapDist(self.y, other.y), PI) =>
                (Near(res.v.y, 0 - PI) \/ Near(res.v.y, PI))
        /\ (self.y = Rad(0 - 7) /\ other.y = Rad(0 - 1)) =>
                (Num(res.v.y) > 0 /\ Near(res.v.y, PI))
        /\ res.v.p = f32_sub(self.p, other.p)
        /\ (self.y = Rad(5) /\ other.y = Rad(0 - 5)) => Near(res.v.y, Rad(0 - 2))

\* C6 witness: a difference of exactly half a turn came out as -pi
C6_Witness ==
    /\ IsSub
    /\ self.y = PI /\ other.y = 0
    /\ res.v.y = 0 - PI

\* s lies in the range normalize maps into, either end of the yaw range included
Normalized(s) ==
    /\ (0 - HalfPi) <= Num(s.p) /\ Num(s.p) <= HalfPi
    /\ (0 - PI) <= Num(s.y) /\ Num(s.y) <= PI

IsStep(t) == ty = t /\ op = "step_toward"

\* step_toward is called on normalized self and target with 0 < dangle < d < pi,
\* d being the wrapped yaw distance from self to target
ShortOfTarget ==
    /\ IsStep("PitchYaw")
    /\ Normalized(self) /\ Normalized(other)
    /\ 0 < Num(dangle)
    /\ Num(dangle) < WrapDist(self.y, other.y)
    /\ WrapDist(self.y, other.y) < PI

Overshoots ==
    /\ Num(dangle) > 0
    /\ LengthBelow(IF ty = "PitchYaw" THEN PY_distance(other, self)
                                      ELSE PYC_distance(other, self),
                   dangle)

NonNegClamps(s) == Num(s.clamp_p) >= 0 /\ Num(s.clamp_y) >= 0

\* C8 (as claimed): for both types, step_toward with dangle larger than the
\* remaining distance returns the normalized target; stated for clamped values
\* whose clamp bounds are non-negative.
C8_OvershootReturnsTarget ==
    /\ (IsStep("PitchYaw") /\ Overshoots) => PY_eq(res.v, PY_normalize(other))
    /\ (IsStep("PitchYawClamped") /\ Overshoots
            /\ NonNegClamps(self) /\ NonNegClamps(other))
        => (~res.panic /\ PYC_eq(res.v, PYC_normalize(other).v))

\* C8 (amended): with dangle larger than the remaining distance, PitchYaw's
\* step_toward returns the normalized target; PitchYawClamped's panics when
\* one of self's clamp bounds is negative, whatever the target's, and
\* otherwise returns the target's p and y clamped to self's bounds and
\* carrying self's bounds, which is the normalized target whenever the
\* target's clamp bounds equal self's.
C8_OvershootReturnsTargetInOwnClamps ==
    /\ (IsStep("PitchYaw") /\ Overshoots) => PY_eq(res.v, PY_normalize(other))
    /\ (IsStep("PitchYawClamped") /\ Overshoots)
        => /\ res.panic <=> ~NonNegClamps(self)
           /\ ~res.panic =>
                /\ res.v.clamp_p = self.clamp_p /\ res.v.clamp_y = self.clamp_y
                /\ res.v.p = clamp(other.p, f32_neg(self.clamp_p), self.clamp_p)
                /\ res.v.y = clamp(other.y, f32_neg(self.clamp_y), self.clamp_y)
                /\ (f32_eq(other.clamp_p, self.clamp_p)
                        /\ f32_eq(other.clamp_y, self.clamp_y))
                    => PYC_eq(res.v, PYC_normalize(other).v)

\* C8 witness: an overshooting step toward a target with wider clamp bounds
\* ended on the target's yaw cut to self's own bound
C8_Witness ==
    /\ IsStep("PitchYawClamped") /\ Overshoots
    /\ NonNegClamps(self) /\ NonNegClamps(other)
    /\ f32_gt(other.clamp_y, self.clamp_y)
    /\ f32_gt(other.y, self.clamp_y)
    /\ res.v.y = self.clamp_y
    /\ res.v.clamp_y = self.clamp_y

IsNormalize(t) == ty = t /\ op = "normalize"

\* C9 (as claimed): PitchYaw::normalize yields pitch in [-pi/2, pi/2] and yaw
\* in (-pi, pi]: -pi is never produced and a yaw of exactly pi is kept.
C9_NormalizeHalfOpenAbove ==
    IsNormalize("PitchYaw") =>
        /\ (0 - HalfPi) <= Num(res.v.p) /\ Num(res.v.p) <= HalfPi
        /\ (0 - PI) < Num(res.v.y) /\ Num(res.v.y) <= PI
        /\ self.y = PI => res.v.y = PI

\* C9 (amended): PitchYaw::normalize yields pitch in [-pi/2, pi/2] and yaw in
\* [-pi, pi), congruent to the input yaw (within EPSILON): pi is never
\* produced and a yaw of exactly pi becomes -pi.
C9_NormalizeHalfOpenBelow ==
    IsNormalize("PitchYaw") =>
        /\ (0 - HalfPi) <= Num(res.v.p) /\ Num(res.v.p) <= HalfPi
        /\ (0 - PI) <= Num(res.v.y) /\ Num(res.v.y) < PI
        /\ Congruent(res.v.y, self.y)
        /\ self.y = PI => res.v.y = 0 - PI

\* C9 witness: a yaw of exactly pi with a pitch above pi/2 was normalized
C9_Witness ==
    /\ IsNormalize("PitchYaw")
    /\ self.y = PI /\ f32_gt(self.p, HalfPi)
    /\ res.v.y = 0 - PI /\ res.v.p = HalfPi

\* C10 (as claimed): for every PitchYaw and every PitchYawClamped value, with
\* any clamp bounds, normalize is defined and normalizing its result again
\* changes nothing.
C10_NormalizeIdempotentAnyClamps ==
    /\ IsNormalize("PitchYaw") => (~res.panic /\ Ok(PY_normalize(res.v)) = res)
    /\ IsNormalize("PitchYawClamped") => (~res.panic /\ PYC_normalize(res.v) = res)

\* C10 (amended): normalize is defined and idempotent for every PitchYaw value
\* and for every PitchYawClamped value whose clamp_p and clamp_y are
\* non-negative; with a negative clamp bound PitchYawClamped::normalize panics.
C10_NormalizeIdempotentNonNegClamps ==
    /\ IsNormalize("PitchYaw") => (~res.panic /\ Ok(PY_normalize(res.v)) = res)
    /\ IsNormalize("PitchYawClamped") =>
        /\ res.panic <=> ~NonNegClamps(self)
        /\ ~res.panic => PYC_normalize(res.v) = res

\* C10 witness: a clamped value outside its non-negative bounds was normalized
\* to a different value
C10_Witness ==
    /\ IsNormalize("PitchYawClamped")
    /\ NonNegClamps(self)
    /\ ~res.panic
    /\ ~PYC_eq(res.v, self)

\* ---------------------------------------------------- claims on steppers
AngularKinds == {"LinearPitchYaw", "LinearPitchYawClamped", "SpringPitchYawClamped"}

\* s lies within its own clamp bounds
WithinClamps(s) ==
    /\ 0 - Num(s.clamp_p) <= Num(s.p) /\ Num(s.p) <= Num(s.clamp_p)
    /\ 0 - Num(s.clamp_y) <= Num(s.y) /\ Num(s.y) <= Num(s.clamp_y)

\* PartialEq of the stepper's value type
SameValue(a, b) ==
    CASE kind = "LinearPitchYaw" -> PY_eq(a, b)
      [] kind \in {"LinearPitchYawClamped", "SpringPitchYawClamped"} -> PYC_eq(a, b)
      [] OTHER -> a = b

SetReturned == call = "set_target" /\ ~failed

\* C11: for every stepper over PitchYaw or PitchYawClamped (LinearStepper of
\* either, SpringStepper of PitchYawClamped), after set_target(v) returns the
\* stored target equals v.normalize() and satisfies the normalization invariant
\* of its type; stated for clamped values whose clamp bounds are non-negative.
C11_SetTargetStoresNormalized ==
    /\ (SetReturned /\ kind = "LinearPitchYaw") =>
        (PY_eq(target, PY_normalize(arg)) /\ Normalized(target))
    /\ (SetReturned /\ kind \in {"LinearPitchYawClamped", "SpringPitchYawClamped"}
                    /\ NonNegClamps(arg)) =>
        (PYC_eq(target, PYC_normalize(arg).v) /\ WithinClamps(target))

\* The stepper's current and target carry clamp bounds that normalize accepts
ValidClamps ==
    kind = "LinearPitchYawClamped" => (NonNegClamps(current) /\ NonNegClamps(target))

Sgn(x) == IF x > 0 THEN 1 ELSE IF x < 0 THEN 0 - 1 ELSE 0

\* normalize() returns v unchanged (any f32, Vec3 or Quat is its own normal
\* form)
NormalForm(v) ==
    CASE kind = "LinearPitchYaw" -> PY_eq(PY_normalize(v), v)
      [] kind \in {"LinearPitchYawClamped", "SpringPitchYawClamped"} ->
            LET n == PYC_normalize(v) IN ~n.panic /\ PYC_eq(n.v, v)
      [] OTHER -> TRUE

\* The per-tick budget speed * dt of the last tick
Budget ==
    IF kind \in {"LinearF32", "LinearVec3"} THEN speed * dt
    ELSE Num(f32_mul(speed, dt))

\* The remaining delta target - prev, as tick computes it, is within the
\* budget: not above it for f32, below it for the length of a Vec3 delta, for
\* the angle between two Quats and for each axis of an angular delta
WithinBudget ==
    CASE kind = "LinearF32" -> Abs(target - prev) <= Budget
      [] kind = "LinearVec3" -> Vec3_length(Vec3_sub(target, prev)) < Budget
      [] kind = "LinearQuat" -> hist.angle < Budget
      [] kind = "LinearPitchYaw" ->
            /\ f32_abs(PY_sub_pitchyaw(target, prev).y) < Budget
            /\ f32_abs(PY_sub_pitchyaw(target, prev).p) < Budget
      [] kind = "LinearPitchYawClamped" ->
            /\ f32_abs(PYC_sub_pitchyaw(target, prev).y) < Budget
            /\ f32_abs(PYC_sub_pitchyaw(target, prev).p) < Budget
      [] OTHER -> FALSE

\* The value a tick within the budget leaves in current: the target, passed
\* through normalize for PitchYaw, and cut to current's own clamp bounds and
\* carrying them for PitchYawClamped
Landing ==
    CASE kind = "LinearPitchYaw" -> PY_normalize(target)
      [] kind = "LinearPitchYawClamped" ->
            [prev EXCEPT !.p = clamp(target.p, f32_neg(prev.clamp_p), prev.clamp_p),
                         !.y = clamp(target.y, f32_neg(prev.clamp_y), prev.clamp_y)]
      [] OTHER -> target

\* A tick has returned leaving current as it was, short of the target
Stuck ==
    /\ call = "tick" /\ ~failed
    /\ SameValue(current, prev)
    /\ ~SameValue(current, target)

\* Why a tick with a positive budget changed nothing short of a normalized
\* target: f32 rounds the sum of current and the step back to current (f32,
\* Vec3), or current sits where the target falls within current's own clamp
\* bounds, the target carrying other bounds (PitchYawClamped); never for
\* PitchYaw and Quat
StuckCause ==
    CASE kind = "LinearF32" ->
            /\ Abs(target - prev) > Budget
            /\ RoundF32Int(prev + Sgn(target - prev) * Budget) = prev
      [] kind = "LinearVec3" ->
            LET delta == Vec3_sub(target, prev)
            IN  /\ Vec3_length(delta) >= Budget
                /\ Vec3_add(prev, Vec3_mul(Vec3_normalize(delta), Budget)) = prev
      [] kind = "LinearPitchYawClamped" ->
            /\ ~(f32_eq(target.clamp_p, prev.clamp_p)
                    /\ f32_eq(target.clamp_y, prev.clamp_y))
            /\ PYC_eq(current, Landing)
      [] OTHER -> FALSE

ScalarTicked == kind = "LinearF32" /\ call = "tick" /\ speed >= 0

\* c lies between a and b, ends included
Between(a, c, b) == (a <= c /\ c <= b) \/ (b <= c /\ c <= a)

\* C13 (as claimed): LinearStepper<f32>::tick with speed >= 0 and budget
\* b = speed*dt moves current by exactly b toward target when
\* |target - current| > b and sets it to target otherwise; |target - current|
\* never increases and current never passes target.
C13_ScalarTickMovesExactlyB ==
    ScalarTicked =>
        /\ IF Abs(target - prev) > speed * dt
           THEN current = prev + Sgn(target - prev) * (speed * dt)
           ELSE current = target
        /\ Abs(target - current) <= Abs(target - prev)
        /\ Between(prev, current, target)

\* C13 (amended): LinearStepper<f32>::tick with speed >= 0 and budget
\* b = speed*dt sets current to the f32 sum of current and b toward target
\* (the exact sum rounded to the nearest f32, so the move can differ from b
\* and can be none) when |target - current| > b, and to target otherwise;
\* |target - current| never increases and current never passes target.
C13_ScalarTickMovesRoundedB ==
    ScalarTicked =>
        /\ IF Abs(target - prev) > speed * dt
           THEN current = RoundF32Int(prev + Sgn(target - prev) * (speed * dt))
           ELSE current = target
        /\ Abs(target - current) <= Abs(target - prev)
        /\ Between(prev, current, target)

\* C13 witness: a tick moved a scalar stepper by its budget without reaching
\* the target
C13_Witness ==
    /\ ScalarTicked
    /\ speed * dt > 0
    /\ Abs(target - prev) > speed * dt
    /\ current = prev + Sgn(target - prev) * (speed * dt)
    /\ current # target

\* A tick of the scalar SpringStepper has returned, the stepper being
\* critically damped, constructed at rest (SpringStepper::new) and its target
\* not set again since the first tick
CriticalTicked ==
    /\ kind = "SpringF32" /\ call = "tick"
    /\ damping = critical_damp_coeff(spring)
    /\ hist.rest
    /\ ~hist.retargeted

\* The error term target - current keeps its sign and does not grow over the
\* last tick
ErrorKept ==
    LET was == QSub(target, prev)
        now == QSub(target, current)
    IN  /\ Sgn(was.n) * Sgn(now.n) >= 0
        /\ QLeq(QAbs(now), QAbs(was))

\* C14 (as claimed): for a critically damped SpringStepper<f32> starting at
\* rest with a target held fixed, over every tick(dt) with dt >= 0 the error
\* target - current never changes sign and its magnitude does not grow.
C14_CriticalNeverOvershoots == CriticalTicked => ErrorKept

\* Every tick so far had dt * sqrt(spring) <= 1/2
SmallSteps == QLeq(QMul(QSqrt(spring), hist.maxdt), Frac(1, 2))

\* C14 (amended): for a critically damped SpringStepper<f32> starting at rest
\* with a target held fixed, over every sequence of tick(dt) calls in which
\* each dt satisfies dt * sqrt(spring) <= 1/2 the error target - current keeps
\* its sign (strictly: a non-zero error stays non-zero) and its magnitude does
\* not grow.
C14_CriticalNeverOvershootsSmallSteps ==
    (CriticalTicked /\ SmallSteps) =>
        /\ ErrorKept
        /\ Sgn(QSub(target, prev).n) = Sgn(QSub(target, current).n)

\* C14 witness: a third tick of positive duration moved a critically damped
\* stepper closer to a target it has not reached
C14_Witness ==
    /\ CriticalTicked /\ SmallSteps
    /\ ticks = 3 /\ dt.n > 0
    /\ current # prev /\ current # target
    /\ QLess(QAbs(QSub(target, current)), QAbs(QSub(target, prev)))

\* ------------------------------------------- claims on constructed curves
\* C15 (as claimed): every curve a constructor returns has at least one
\* segment and strictly increasing t_start values, so every segment, the last
\* one of length 1 - t_start[last] included, has a strictly positive length.
C15_ConstructorsKeepInvariant ==
    built = "ok" =>
        /\ Len(segments) >= 1
        /\ Strict(segments)
        /\ \A i \in 0..(Len(segments) - 1) : segment_length(segments, i) > 0

ClampedKinds == {"LinearPitchYawClamped", "SpringPitchYawClamped"}

\* A tick of a stepper over PitchYawClamped whose current value had
\* non-negative clamp bounds has been called
ClampedTicked == call = "tick" /\ kind \in ClampedKinds /\ NonNegClamps(prev)

SettledTicked ==
    call = "tick" /\ kind \in LinearKinds /\ speed >= 0 /\ SameValue(prev, target)

\* The tick handed current to slerp: the angle between current and target came
\* out positive and not below the budget
Slerped == kind = "LinearQuat" /\ hist.angle > 0 /\ hist.angle >= Budget

\* C17 (as claimed): the settled state of a LinearStepper is stable: with
\* speed >= 0 and current = target (also right after new(value, speed) with any
\* value, normalized or not), tick(dt) leaves current unchanged for any
\* dt >= 0; the Quat tick that hands a settled value to slerp is left aside.
C17_SettledIsStable ==
    (SettledTicked /\ ~Slerped) => SameValue(current, prev)

\* C17 (amended): with speed >= 0 and current = target, tick(dt) for any
\* dt >= 0 leaves current unchanged for f32 and Vec3; for PitchYaw it sets
\* current to current.normalize(), and so does it for PitchYawClamped, where
\* it panics on a negative clamp bound; hence a value that equals its own
\* normalize() is left unchanged. For Quat it leaves current unchanged when
\* angle_between(current, target) comes out 0 or below speed*dt.
C17_SettledNormalFormIsStable ==
    SettledTicked =>
        /\ kind \in {"LinearF32", "LinearVec3"} => current = prev
        /\ (kind = "LinearQuat" /\ ~Slerped) => current = prev
        /\ kind = "LinearPitchYaw" => PY_eq(current, PY_normalize(prev))
        /\ kind = "LinearPitchYawClamped" =>
            /\ failed <=> ~NonNegClamps(prev)
            /\ ~failed => PYC_eq(current, PYC_normalize(prev).v)
        /\ (kind \in {"LinearPitchYaw", "LinearPitchYawClamped"} /\ NormalForm(prev))
            => (~failed /\ SameValue(current, prev))

\* A tick with a positive budget on a PitchYaw stepper settled at yaw -PI
C17_Witness ==
    /\ SettledTicked /\ NormalForm(prev)
    /\ kind = "LinearPitchYaw" /\ prev.y = 0 - PI
    /\ speed > 0 /\ dt > 0
    /\ PY_eq(current, prev)

\* ------------------------------------- claims on PitchYawClamped bounds
\* C18 (as claimed): every PitchYawClamped operation that derives a new
\* PitchYawClamped from self (normalize, sub_pitchyaw, step_toward, +,
\* * scalar, clamp_u, clamp_v, clamp, TickDerivative::tick) returns a value
\* whose clamp_p and clamp_y equal self's, also for non-default bounds.
C18_OperationsKeepOwnBounds ==
    (ty = "PitchYawClamped" /\ op # "none" /\ ~res.panic) =>
        (res.v.clamp_p = self.clamp_p /\ res.v.clamp_y = self.clamp_y)

=============================================================================
